---------------------------- MODULE Spec2Model ----------------------------
(***************************************************************************)
(* Model of the text-metrics analyzers of bert-text-complexity:            *)
(*   TextComplexityMetrics   (core/analyze/textComplexityMetrics.py)       *)
(*   DescriptiveTextMetrics  (core/analyze/descriptiveTextMetrics.py and   *)
(*                            its copy in ReadabilityIndexCalculator.py)   *)
(*   MorphoMetrics           (core/analyze/morpho_metrics.py)              *)
(*   ReadabilityIndexCalculator (core/analyze/ReadabilityIndexCalculator.py)*)
(*                                                                         *)
(* Representation.                                                         *)
(*  - A Python str is a sequence of characters; a character is a one-      *)
(*    element token.  Module strings are ASCII only, so a Cyrillic letter  *)
(*    is written by its transliteration: "ru_k" is the lower-case letter   *)
(*    ka, "RU_K" the upper-case one.  Latin letters, digits and            *)
(*    punctuation are themselves; "laquo", "raquo" and "emdash" are the    *)
(*    guillemets and the em dash.                                          *)
(*  - A non-string argument (None, a number) is a record [py |-> ...].     *)
(*  - A Python float that the code rounds to d decimals is the integer     *)
(*    10^d times its value: confidence_hint 0.3 rounded to 2 decimals is   *)
(*    30, flesch_reading_ease 100.0 rounded to 1 decimal is 1000.  Values  *)
(*    before rounding are exact fractions <<numerator, denominator>>.      *)
(*  - A result dict is a function from keys to values; a Cyrillic key is   *)
(*    transliterated.  A call that raises yields [raised |-> exception].   *)
(***************************************************************************)
EXTENDS Integers, Sequences, FiniteSets, TLC

\* ------------------------------------------------------------------------
\* Characters
\* ------------------------------------------------------------------------

\* The letters of the regular-expression class [а-я] (U+0430..U+044F), in
\* code-point order, and the letter yo (U+0451) that the classes add.
CyrLowerRange ==
  << "ru_a", "ru_b", "ru_v", "ru_g", "ru_d", "ru_e", "ru_zh", "ru_z",
     "ru_i", "ru_j", "ru_k", "ru_l", "ru_m", "ru_n", "ru_o", "ru_p",
     "ru_r", "ru_s", "ru_t", "ru_u", "ru_f", "ru_h", "ru_ts", "ru_ch",
     "ru_sh", "ru_shch", "ru_hard", "ru_y", "ru_soft", "ru_eh", "ru_yu",
     "ru_ya" >>

\* The letters of the class [А-Я] (U+0410..U+042F), aligned with CyrLowerRange.
CyrUpperRange ==
  << "RU_A", "RU_B", "RU_V", "RU_G", "RU_D", "RU_E", "RU_ZH", "RU_Z",
     "RU_I", "RU_J", "RU_K", "RU_L", "RU_M", "RU_N", "RU_O", "RU_P",
     "RU_R", "RU_S", "RU_T", "RU_U", "RU_F", "RU_H", "RU_TS", "RU_CH",
     "RU_SH", "RU_SHCH", "RU_HARD", "RU_Y", "RU_SOFT", "RU_EH", "RU_YU",
     "RU_YA" >>

LatLowerRange ==
  << "a", "b", "c", "d", "e", "f", "g", "h", "i", "j", "k", "l", "m",
     "n", "o", "p", "q", "r", "s", "t", "u", "v", "w", "x", "y", "z" >>

LatUpperRange ==
  << "A", "B", "C", "D", "E", "F", "G", "H", "I", "J", "K", "L", "M",
     "N", "O", "P", "Q", "R", "S", "T", "U", "V", "W", "X", "Y", "Z" >>

Range(f) == { f[i] : i \in DOMAIN f }

\* [а-яё]
CyrLower == Range(CyrLowerRange) \cup {"ru_yo"}

\* [а-яА-ЯёЁa-zA-Z]
MixedLetters ==
  CyrLower \cup Range(CyrUpperRange) \cup {"RU_YO"}
           \cup Range(LatLowerRange) \cup Range(LatUpperRange)

Digits == {"0", "1", "2", "3", "4", "5", "6", "7", "8", "9"}

\* \w of a str pattern: letters, digits and the underscore.
WordChars == MixedLetters \cup Digits \cup {"_"}

\* What str.strip() removes and \s matches.
Whitespace == {" ", "\t", "\n", "\r"}

\* [.!?]
Terminators == {".", "!", "?"}

\* vowels = "аеёиоуыэюя"
Vowels ==
  {"ru_a", "ru_e", "ru_yo", "ru_i", "ru_o", "ru_u", "ru_y", "ru_eh",
   "ru_yu", "ru_ya"}

\* str.lower() on one character.
LowerChar(c) ==
  IF c = "RU_YO" THEN "ru_yo"
  ELSE IF \E i \in DOMAIN CyrUpperRange : CyrUpperRange[i] = c
    THEN CyrLowerRange[CHOOSE i \in DOMAIN CyrUpperRange : CyrUpperRange[i] = c]
  ELSE IF \E i \in DOMAIN LatUpperRange : LatUpperRange[i] = c
    THEN LatLowerRange[CHOOSE i \in DOMAIN LatUpperRange : LatUpperRange[i] = c]
  ELSE c

\* str.lower()
Lower(s) == [i \in 1..Len(s) |-> LowerChar(s[i])]

\* A Python value passed as `text`: a str with its characters, or a value
\* of another type (None, an int, a list with its length).
PyStr(s) == [py |-> "str", s |-> s]
PyNone == [py |-> "NoneType"]
PyInt(n) == [py |-> "int", value |-> n]
PyList(n) == [py |-> "list", len |-> n]

\* isinstance(text, str)
IsStr(x) == x.py = "str"

\* Whether len(x) is defined; it raises TypeError for None and for a number.
HasLen(x) == x.py \in {"str", "list"}

\* len(x)
PyLen(x) == IF x.py = "str" THEN Len(x.s) ELSE x.len

\* A call that raises instead of returning.
Raised(exc) == [raised |-> exc]

\* The first position from i on whose character is in C (inC) or is not in
\* C (~inC), Len(s) + 1 if there is none.
FirstFrom(s, i, C, inC) ==
  CHOOSE j \in i..(Len(s) + 1) :
    /\ j = Len(s) + 1 \/ ((s[j] \in C) = inC)
    /\ \A k \in i..(j - 1) : (s[k] \in C) # inC

\* str.strip(): the text from its first to its last non-whitespace character.
Strip(s) ==
  LET first == FirstFrom(s, 1, Whitespace, FALSE)
      last == CHOOSE j \in 0..Len(s) :
                /\ j = 0 \/ s[j] \notin Whitespace
                /\ \A k \in (j + 1)..Len(s) : s[k] \in Whitespace
  IN IF first > Len(s) THEN <<>> ELSE SubSeq(s, first, last)

\* ------------------------------------------------------------------------
\* Segmentation
\* ------------------------------------------------------------------------

\* re.split(r'[.!?]+', text) from position i, the start of a piece: the piece
\* up to the next terminator run, then the pieces after that run (an empty
\* last piece when the text ends with the run).
RECURSIVE SplitFrom(_, _)
SplitFrom(s, i) ==
  LET j == FirstFrom(s, i, Terminators, TRUE)
  IN IF j > Len(s) THEN <<SubSeq(s, i, Len(s))>>
     ELSE <<SubSeq(s, i, j - 1)>>
            \o SplitFrom(s, FirstFrom(s, j, Terminators, FALSE))

ReSplit(s) == SplitFrom(s, 1)

\* [s.strip() for s in sentences if s.strip()]
RECURSIVE StripNonEmpty(_)
StripNonEmpty(ps) ==
  IF ps = <<>> THEN <<>>
  ELSE IF Strip(Head(ps)) = <<>> THEN StripNonEmpty(Tail(ps))
  ELSE <<Strip(Head(ps))>> \o StripNonEmpty(Tail(ps))

\* _split_sentences (the same code in all classes).
SplitSentences(text) == StripNonEmpty(ReSplit(text))

\* The position after the maximal run of letters of L starting at i.
RunEnd(s, i, L) == FirstFrom(s, i, L, FALSE)

\* L+(?:-L+)* matched greedily from i (s[i] in L): <<e, p>> where e is the
\* position after the whole chain and p the position after the chain without
\* its last hyphenated part (0 if the chain is one run).
RECURSIVE ChainEnd(_, _, _, _)
ChainEnd(s, i, L, p) ==
  LET e == RunEnd(s, i, L)
  IN IF e + 1 <= Len(s) /\ s[e] = "-" /\ s[e + 1] \in L
       THEN ChainEnd(s, e + 1, L, e)
       ELSE <<e, p>>

\* \b at the end of a match that ends before position e.
BoundaryAfter(s, e) == e > Len(s) \/ s[e] \notin WordChars

\* \b before a match that starts at i.
BoundaryBefore(s, i) == i = 1 \/ s[i - 1] \notin WordChars

\* The end of the match of \bL+(?:-L+)*\b (hyphen) or \bL+\b (no hyphen)
\* at i, 0 if there is none.  The greedy match is tried first; when \b fails
\* after it the engine gives up the last hyphenated part, after which a
\* hyphen follows and \b holds; inside a run \b never holds.
MatchEnd(s, i, L, hyphen) ==
  IF ~(s[i] \in L /\ BoundaryBefore(s, i)) THEN 0
  ELSE LET c == IF hyphen THEN ChainEnd(s, i, L, 0) ELSE <<RunEnd(s, i, L), 0>>
       IN IF BoundaryAfter(s, c[1]) THEN c[1] ELSE c[2]

\* re.findall of the word pattern from position i: the match at the first
\* position where the pattern can start, then the matches after it; where
\* the pattern fails at a start the search goes on behind that position.
RECURSIVE FindWords(_, _, _, _)
FindWords(s, i, L, hyphen) ==
  LET j == CHOOSE j \in i..(Len(s) + 1) :
             /\ j = Len(s) + 1 \/ (s[j] \in L /\ BoundaryBefore(s, j))
             /\ \A k \in i..(j - 1) : ~(s[k] \in L /\ BoundaryBefore(s, k))
  IN IF j > Len(s) THEN <<>>
     ELSE LET e == MatchEnd(s, j, L, hyphen)
          IN IF e = 0 THEN FindWords(s, j + 1, L, hyphen)
             ELSE <<SubSeq(s, j, e - 1)>> \o FindWords(s, e, L, hyphen)

\* TextComplexityMetrics._split_words
SplitWords(sentence) == FindWords(sentence, 1, MixedLetters, TRUE)

\* DescriptiveTextMetrics._extract_words, ReadabilityIndexCalculator._extract_words
ExtractWords(text) == FindWords(Lower(text), 1, CyrLower, TRUE)

\* MorphoMetrics._extract_words
MorphoExtractWords(text) == FindWords(Lower(text), 1, CyrLower, FALSE)

\* ------------------------------------------------------------------------
\* Syllables
\* ------------------------------------------------------------------------

Max(a, b) == IF a >= b THEN a ELSE b
Min(a, b) == IF a <= b THEN a ELSE b

\* sum(1 for ch in word if ch in vowels)
VowelCount(word) == Cardinality({i \in 1..Len(word) : word[i] \in Vowels})

\* TextComplexityMetrics._count_syllables_ru: lower-cases first.
CountSyllablesSurface(word) == Max(1, VowelCount(Lower(word)))

\* DescriptiveTextMetrics._count_syllables_ru and
\* ReadabilityIndexCalculator._count_syllables_ru: no lower-casing.
CountSyllables(word) == Max(1, VowelCount(word))

\* ------------------------------------------------------------------------
\* Numbers
\* ------------------------------------------------------------------------

\* The element of a one-element set: binds a value that is computed once.
The(S) == CHOOSE x \in S : TRUE

\* The nearest integer to scale * n / d for n >= 0 and d > 0, a tie going to
\* the even one: round(x, k) in 10^-k units (scale = 10^k) of a float x that
\* is the value n / d up to an error too small to cross a tie.
RoundHalfEven(n, d, scale) ==
  LET q == (n * scale) \div d
      r == (n * scale) % d
  IN IF 2 * r < d THEN q
     ELSE IF 2 * r > d THEN q + 1
     ELSE IF q % 2 = 0 THEN q ELSE q + 1

RECURSIVE GCD(_, _)
GCD(a, b) == IF b = 0 THEN a ELSE GCD(b, a % b)

\* b = 2^TwoExp(b) * OddPart(b)
RECURSIVE TwoExp(_)
TwoExp(b) == IF b % 2 = 0 THEN 1 + TwoExp(b \div 2) ELSE 0

RECURSIVE OddPart(_)
OddPart(b) == IF b % 2 = 0 THEN OddPart(b \div 2) ELSE b

\* 2^e mod c
RECURSIVE Pow2Mod(_, _)
Pow2Mod(e, c) ==
  IF e = 0 THEN 1 % c
  ELSE IF e % 2 = 1 THEN (2 * Pow2Mod(e - 1, c)) % c
  ELSE The({ (h * h) % c : h \in {Pow2Mod(e \div 2, c)} })

\* floor(log2(a / b)) for a, b > 0
FloorLog2(a, b) ==
  IF a >= b
    THEN CHOOSE e \in 0..29 : 2^e <= a \div b /\ a \div b < 2^(e + 1)
    ELSE 0 - (CHOOSE k \in 1..30 : 2^(k - 1) * a < b /\ 2^k * a >= b)

\* Whether the double nearest to a / b (in lowest terms, not representable)
\* lies above a / b: the 53-bit significand is a * 2^(52 - e) / b rounded to
\* the nearest integer, with e = floor(log2(a / b)).
DoubleAbove(a, b) ==
  2 * ((a * Pow2Mod(52 - FloorLog2(a, b) - TwoExp(b), OddPart(b)))
         % OddPart(b)) > OddPart(b)

\* round(n / d, k) in 10^-k units (scale = 10^k), for n >= 0 and d > 0, of
\* the float n / d, which is the double nearest to the quotient: a decimal
\* tie that is no double is rounded to the side its double lies on, a tie
\* that is a double goes to the even neighbour.
PyRound(n, d, scale) ==
  LET q == (n * scale) \div d
      r == (n * scale) % d
  IN IF 2 * r < d THEN q
     ELSE IF 2 * r > d THEN q + 1
     ELSE IF OddPart(d \div GCD(n, d)) = 1
       THEN (IF q % 2 = 0 THEN q ELSE q + 1)
     ELSE IF DoubleAbove(n \div GCD(n, d), d \div GCD(n, d)) THEN q + 1
     ELSE q

\* a / b <= c / d for a, c >= 0 and b, d > 0, by the continued-fraction
\* expansion, so that no product is formed.
RECURSIVE FracLE(_, _, _, _)
FracLE(a, b, c, d) ==
  LET qa == a \div b
      qc == c \div d
      ra == a % b
      rc == c % d
  IN IF qa # qc THEN qa < qc
     ELSE IF ra = 0 THEN TRUE
     ELSE IF rc = 0 THEN FALSE
     ELSE FracLE(d, rc, b, ra)

RECURSIVE SumSeq(_)
SumSeq(xs) == IF xs = <<>> THEN 0 ELSE Head(xs) + SumSeq(Tail(xs))

\* The number of elements of xs that satisfy P.
CountIf(xs, P(_)) == Cardinality({i \in 1..Len(xs) : P(xs[i])})

\* [f(x) for x in xs]
MapSeq(xs, F(_)) == [i \in 1..Len(xs) |-> F(xs[i])]

\* words.extend(...) over the sentences, in order.
RECURSIVE Concat(_)
Concat(ss) == IF ss = <<>> THEN <<>> ELSE Head(ss) \o Concat(Tail(ss))

\* ------------------------------------------------------------------------
\* TextComplexityMetrics (SurfaceComplexityAnalyzer)
\* ------------------------------------------------------------------------

\* A faulty variant of SurfaceConfidence: five words already count as few.
SurfaceConfidenceUpTo5(n_sentences, n_words) ==
  LET c1 == IF n_sentences < 2 THEN 50 ELSE 100
  IN IF n_words <= 5 THEN 30 ELSE c1

\* The confidence of TextComplexityMetrics.compute, in hundredths: two
\* independent checks, the second overriding the first.
SurfaceConfidence(n_sentences, n_words) ==
  LET c1 == IF n_sentences < 2 THEN 50 ELSE 100
  IN IF n_words < 5 THEN 30 ELSE c1

\* The result of the empty branch: len(text) raises for a value without a
\* length.
SurfaceEmpty(text) ==
  IF ~HasLen(text) THEN Raised("TypeError")
  ELSE [avg_sentence_length |-> 0, avg_word_syllables |-> 0,
        avg_word_letters |-> 0, sentence_count |-> 0, word_count |-> 0,
        char_count |-> PyLen(text), confidence_hint |-> 0]

\* The three bilingual keys of the non-empty result (the third one's "avg"
\* starts with a Cyrillic letter in the source).
KeyAvgSentenceLength == "Srednyaya dlina predlozheniya (avg_sentence_length)"
KeyAvgWordSyllables == "Srednyaya dlina slova (v slogah) (avg_word_syllables)"
KeyAvgWordLetters == "Srednyaya dlina slova (v bukvah) (ru_a+vg_word_letters)"

\* The non-empty branch of TextComplexityMetrics.compute, from the sentences,
\* the words of all sentences and the length of the text.
SurfaceOf(sentences, words, n_chars) ==
  (KeyAvgSentenceLength :>
     (IF Len(sentences) > 0
        THEN PyRound(Len(words), Len(sentences), 100) ELSE 0))
  @@ (KeyAvgWordSyllables :>
     (IF Len(words) > 0
        THEN PyRound(SumSeq(MapSeq(words, CountSyllablesSurface)),
                           Len(words), 100)
        ELSE 0))
  @@ (KeyAvgWordLetters :>
     (IF Len(words) > 0
        THEN PyRound(SumSeq(MapSeq(words, Len)), Len(words), 100)
        ELSE 0))
  @@ [sentence_count |-> Len(sentences), word_count |-> Len(words),
      char_count |-> n_chars,
      confidence_hint |-> SurfaceConfidence(Len(sentences), Len(words))]

\* for sent in sentences: words.extend(self._split_words(sent))
SurfaceWords(sentences) == Concat(MapSeq(sentences, SplitWords))

\* TextComplexityMetrics.compute
SurfaceCompute(text) ==
  IF ~IsStr(text) \/ Strip(text.s) = <<>> THEN SurfaceEmpty(text)
  ELSE SurfaceOf(SplitSentences(text.s),
                 SurfaceWords(SplitSentences(text.s)), Len(text.s))

\* ------------------------------------------------------------------------
\* DescriptiveTextMetrics (LexicalDescriptiveAnalyzer)
\* ------------------------------------------------------------------------

\* distribution.get(k, 0)
DictGet(d, k) == IF k \in DOMAIN d THEN d[k] ELSE 0

\* A faulty variant of DistributionAdd: the counts from 4 on share the
\* entry 4.
DistributionAddCapped(d, sc) ==
  [k \in DOMAIN d \cup {Min(sc, 4)} |->
     IF k = Min(sc, 4) THEN DictGet(d, Min(sc, 4)) + 1 ELSE d[k]]

\* distribution[sc] = distribution.get(sc, 0) + 1
DistributionAdd(d, sc) ==
  [k \in DOMAIN d \cup {sc} |-> IF k = sc THEN DictGet(d, sc) + 1 ELSE d[k]]

\* for sc in syllable_counts: ..., from the empty dict.
RECURSIVE DistributionFrom(_, _)
DistributionFrom(d, scs) ==
  IF scs = <<>> THEN d
  ELSE DistributionFrom(DistributionAdd(d, Head(scs)), Tail(scs))

\* The empty dict.
EmptyDict == [k \in {} |-> 0]

\* sum(v for k, v in distribution.items() if k >= 4)
RECURSIVE SumFrom4(_, _)
SumFrom4(d, ks) ==
  IF ks = {} THEN 0
  ELSE LET k == CHOOSE x \in ks : TRUE
       IN (IF k >= 4 THEN d[k] ELSE 0) + SumFrom4(d, ks \ {k})

\* The result of the empty branch (it has no lexical_diversity entry).
DescriptiveEmpty ==
  [word_forms_total |-> 0, unique_words |-> 0, sentence_count |-> 0,
   monosyllabic_words |-> 0, disyllabic_words |-> 0, trisyllabic_words |-> 0,
   polysyllabic_words |-> 0, word_syllable_distribution |-> EmptyDict]

\* The key under which descriptiveTextMetrics.py reports the number of unique
\* words of a non-empty text.
KeyUniqueWordsRu == "Unikalnye slova (unique_words)"

\* The entries of the non-empty result that the two copies of
\* DescriptiveTextMetrics.compute share, from the number of sentences, the
\* words, the number of unique words and the syllable distribution.
DescriptiveOf(n_sentences, all_words, n_unique, distribution) ==
  [word_forms_total |-> Len(all_words),
   sentence_count |-> n_sentences,
   monosyllabic_words |-> DictGet(distribution, 1),
   disyllabic_words |-> DictGet(distribution, 2),
   trisyllabic_words |-> DictGet(distribution, 3),
   polysyllabic_words |-> SumFrom4(distribution, DOMAIN distribution),
   word_syllable_distribution |-> distribution,
   lexical_diversity |->
     IF Len(all_words) > 0
       THEN PyRound(n_unique, Len(all_words), 1000)
       ELSE 0]

\* distribution, built from the syllable counts of the words in order.
Distribution(all_words) ==
  DistributionFrom(EmptyDict, MapSeq(all_words, CountSyllables))

\* len(unique_words) with unique_words = set(all_words)
UniqueCount(all_words) == Cardinality(Range(all_words))

DescriptiveCommon(sentences, all_words) ==
  DescriptiveOf(Len(sentences), all_words, UniqueCount(all_words),
                Distribution(all_words))

\* DescriptiveTextMetrics.compute of descriptiveTextMetrics.py
DescriptiveCompute(text) ==
  IF ~IsStr(text) \/ Strip(text.s) = <<>> THEN DescriptiveEmpty
  ELSE (KeyUniqueWordsRu :> UniqueCount(ExtractWords(text.s)))
       @@ DescriptiveCommon(SplitSentences(text.s), ExtractWords(text.s))

\* DescriptiveTextMetrics.compute of ReadabilityIndexCalculator.py
DescriptiveComputeCopy(text) ==
  IF ~IsStr(text) \/ Strip(text.s) = <<>> THEN DescriptiveEmpty
  ELSE [unique_words |-> UniqueCount(ExtractWords(text.s))]
       @@ DescriptiveCommon(SplitSentences(text.s), ExtractWords(text.s))

\* ------------------------------------------------------------------------
\* ReadabilityIndexCalculator (ReadabilityIndexEngine)
\* ------------------------------------------------------------------------

\* The word count from which confidence_hint is 1.0.
ConfidentWords == 20

\* The sentence count from which SMOG takes the square-root formula.
SmogMinSentences == 10

\* A sentence is long when it has more words than this.
LongSentenceWords == 15

\* A word is long from this many letters.
LongWordLetters == 7

\* max(lo, min(hi, n / d)) as a fraction over d, lo and hi being integers.
\* A faulty variant of Clamp: the value is passed through.
ClampNone(n, d, lo, hi) == <<n, d>>

Clamp(n, d, lo, hi) == <<Max(lo * d, Min(hi * d, n)), d>>

\* flesch = 206.835 - 1.3 * asw - 60.1 * (n_sentences / n_words), clamped to
\* [0, 100], as a fraction over 1000 * n_words.
Flesch(n_sentences, n_words, n_syllables) ==
  Clamp(206835 * n_words - 1300 * n_syllables - 60100 * n_sentences,
        1000 * n_words, 0, 100)

\* simple_level = min(5.0, max(1.0, 1.0 + simple_score / 5.0)) with
\* simple_score = 0.5 * long_sentences + 1.0 * polysyllables_4 + 0.2 * long_words,
\* as a fraction over 50.
SimpleLevel(long_sentences, polysyllables_4, long_words) ==
  Clamp(50 + 5 * long_sentences + 10 * polysyllables_4 + 2 * long_words,
        50, 1, 5)

\* school_level = 0.39 * asl + 11.8 * asw - 15.59, clamped to [1, 12], as a
\* fraction over 100 * n_sentences * n_words.
SchoolLevel(n_sentences, n_words, n_syllables) ==
  Clamp(39 * n_words * n_words + 1180 * n_syllables * n_sentences
          - 1559 * n_sentences * n_words,
        100 * n_sentences * n_words, 1, 12)

\* Whether tenths t is at most 10 * (1.043 * sqrt(30 * p / n) + 3.1291) + 0.5,
\* that is (1000 t - 31791) / 10430 <= sqrt(30 p / n).
SmogAtLeast(t, p, n) ==
  LET a == 1000 * t - 31791
  IN a <= 0 \/ (p > 0 /\ FracLE(a * n, 30 * p * 10430, 10430, a))

\* round(1.043 * sqrt(30 * p / n) + 3.1291, 1) in tenths: the greatest t
\* with SmogAtLeast (the value is at least 3.1 and below 3.3 + 1.9 * p).
SmogSqrt(p, n) ==
  CHOOSE t \in 31..(33 + 19 * p) :
    SmogAtLeast(t, p, n) /\ ~SmogAtLeast(t + 1, p, n)

\* A faulty variant of SmogGrade: a text of exactly SmogMinSentences
\* sentences still takes the linear formula.
SmogGradeAbove(n_sentences, polysyllables) ==
  IF n_sentences > SmogMinSentences
    THEN SmogSqrt(polysyllables, n_sentences)
    ELSE 10 + polysyllables

\* smog, rounded to 1 decimal (in tenths): the square-root formula from
\* SmogMinSentences sentences on, the linear one 1.0 + 0.1 * polysyllables
\* below.
SmogGrade(n_sentences, polysyllables) ==
  IF n_sentences >= SmogMinSentences
    THEN SmogSqrt(polysyllables, n_sentences)
    ELSE 10 + polysyllables

\* _interpret_flesch, on the clamped (unrounded) score f = <<n, d>>; the
\* labels are transliterated.
InterpretFlesch(f) ==
  IF f[1] >= 90 * f[2] THEN "ochen legko (1-3 kl.)"
  ELSE IF f[1] >= 80 * f[2] THEN "legko (4-5 kl.)"
  ELSE IF f[1] >= 70 * f[2] THEN "dovolno legko (6-7 kl.)"
  ELSE IF f[1] >= 60 * f[2] THEN "sredne (8-9 kl.)"
  ELSE IF f[1] >= 50 * f[2] THEN "dovolno slozhno (10-11 kl.)"
  ELSE IF f[1] >= 30 * f[2] THEN "slozhno (studenty)"
  ELSE "ochen slozhno (akademiki)"

\* The literal of flesch_level in the empty result.
EmptyMarker == "pusto"

\* ReadabilityIndexCalculator._empty_result
ReadabilityEmpty ==
  [flesch_reading_ease |-> 0, smog_grade |-> 0, simple_level |-> 0,
   school_grade |-> 0, avg_sentence_words |-> 0, avg_word_syllables |-> 0,
   polysyllabic_words_ge3 |-> 0, polysyllabic_words_ge4 |-> 0,
   long_sentences_gt15 |-> 0, long_words_ge7 |-> 0,
   flesch_level |-> EmptyMarker, is_child_friendly |-> FALSE,
   confidence_hint |-> 0]

\* Whether compute returns _empty_result(): the two early returns.
ReadabilityIsEmpty(text) ==
  \/ ~IsStr(text)
  \/ Strip(text.s) = <<>>
  \/ Len(ExtractWords(text.s)) = 0
  \/ Len(SplitSentences(text.s)) = 0

\* A faulty variant of ReadabilityConfidence: the threshold is exclusive.
ReadabilityConfidenceStrict(n_words) ==
  IF n_words > ConfidentWords THEN 10 ELSE 6

\* 1.0 if n_words >= 20 else 0.6, in tenths.
ReadabilityConfidence(n_words) == IF n_words >= ConfidentWords THEN 10 ELSE 6

\* flesch >= 70.0 and simple_level <= 2.5, on the unrounded values.
ChildFriendly(flesch, simple_level) ==
  flesch[1] >= 70 * flesch[2] /\ 2 * simple_level[1] <= 5 * simple_level[2]

\* round(f, k) of a fraction f >= 0, in 10^-k units (scale = 10^k).
RoundFrac(f, scale) == RoundHalfEven(f[1], f[2], scale)

\* The returned dict, from the counts.
ReadabilityFrom(n_sentences, n_words, n_syllables, polysyllables, polysyllables_4, long_sentences, long_words) ==
  [flesch_reading_ease |->
     RoundFrac(Flesch(n_sentences, n_words, n_syllables), 10),
   smog_grade |-> SmogGrade(n_sentences, polysyllables),
   simple_level |->
     RoundFrac(SimpleLevel(long_sentences, polysyllables_4, long_words), 10),
   school_grade |->
     RoundFrac(SchoolLevel(n_sentences, n_words, n_syllables), 10),
   avg_sentence_words |-> PyRound(n_words, n_sentences, 100),
   avg_word_syllables |-> PyRound(n_syllables, n_words, 100),
   polysyllabic_words_ge3 |-> polysyllables,
   polysyllabic_words_ge4 |-> polysyllables_4,
   long_sentences_gt15 |-> long_sentences,
   long_words_ge7 |-> long_words,
   flesch_level |-> InterpretFlesch(Flesch(n_sentences, n_words, n_syllables)),
   is_child_friendly |->
     ChildFriendly(Flesch(n_sentences, n_words, n_syllables),
                   SimpleLevel(long_sentences, polysyllables_4, long_words)),
   confidence_hint |-> ReadabilityConfidence(n_words)]

\* The counts from the sentences, the words and their syllable counts.
ReadabilityOf(sentences, words, syllables) ==
  The({ ReadabilityFrom(n_sentences, n_words, n_syllables, polysyllables,
                        polysyllables_4, long_sentences, long_words) :
          n_sentences \in {Len(sentences)},
          n_words \in {Len(words)},
          n_syllables \in {SumSeq(syllables)},
          polysyllables \in {CountIf(syllables, LAMBDA sc : sc >= 3)},
          polysyllables_4 \in {CountIf(syllables, LAMBDA sc : sc >= 4)},
          long_sentences \in
            {CountIf(sentences,
                     LAMBDA st : Len(ExtractWords(st)) > LongSentenceWords)},
          long_words \in
            {CountIf(words, LAMBDA w : Len(w) >= LongWordLetters)} })

\* ReadabilityIndexCalculator.compute
ReadabilityCompute(text) ==
  IF ReadabilityIsEmpty(text) THEN ReadabilityEmpty
  ELSE The({ ReadabilityOf(sentences, words, MapSeq(words, CountSyllables)) :
               sentences \in {SplitSentences(text.s)},
               words \in {ExtractWords(text.s)} })

\* ------------------------------------------------------------------------
\* The morphological collaborator (pymorphy2.MorphAnalyzer), as a
\* deterministic stub over a small dictionary
\* ------------------------------------------------------------------------

Kot == <<"ru_k", "ru_o", "ru_t">>
Spit == <<"ru_s", "ru_p", "ru_i", "ru_t">>
Spat == <<"ru_s", "ru_p", "ru_a", "ru_t", "ru_soft">>
Stali == <<"ru_s", "ru_t", "ru_a", "ru_l", "ru_i">>
Stat == <<"ru_s", "ru_t", "ru_a", "ru_t", "ru_soft">>
Stal == <<"ru_s", "ru_t", "ru_a", "ru_l", "ru_soft">>
On == <<"ru_o", "ru_n">>
Yy == <<"ru_y", "ru_y">>
Ushk == <<"ru_u", "ru_sh", "ru_k">>
ErrWord == <<"ru_hard">>

\* One candidate parse: parse(word)[i] with its tag.POS, its tag.aspect and
\* its normal_form; "None" is Python's None.
Candidate(pos, aspect, normal_form) ==
  [POS |-> pos, aspect |-> aspect, normal_form |-> normal_form]

\* Whether self.morph.parse(word) raises.
ParseRaises(word) == word = ErrWord

\* self.morph.parse(word) when it returns: the candidates, most probable
\* first; none for a word the collaborator cannot parse.
Parse(word) ==
  CASE word = Kot -> <<Candidate("NOUN", "None", Kot)>>
    [] word = Spit -> <<Candidate("VERB", "impf", Spat)>>
    [] word = Stali -> <<Candidate("VERB", "perf", Stat),
                         Candidate("NOUN", "None", Stal)>>
    [] word = On -> <<Candidate("NPRO", "None", On)>>
    [] word = Yy -> <<Candidate("None", "None", Yy)>>
    [] OTHER -> <<>>

\* ------------------------------------------------------------------------
\* MorphoMetrics (MorphologicalClassifier)
\* ------------------------------------------------------------------------

\* word in self._cache
CacheHit(cache, word) == word \in DOMAIN cache

\* pos of _get_pos after a miss: "UNKNOWN" without candidates, else
\* parsed[0].tag.POS or "UNKNOWN".
TopTag(word) ==
  IF Parse(word) = <<>> THEN "UNKNOWN"
  ELSE IF Parse(word)[1].POS = "None" THEN "UNKNOWN"
  ELSE Parse(word)[1].POS

\* A faulty variant of HasRoom: the comparison admits one entry too many.
HasRoomOffByOne(cache, size) == Cardinality(DOMAIN cache) <= size

\* len(self._cache) < self._cache_size
HasRoom(cache, size) == Cardinality(DOMAIN cache) < size

\* A faulty variant of CachePut: the tag of the last candidate is stored
\* instead of the tag that is returned.
CachePutLastCandidate(cache, word, pos) ==
  [w \in DOMAIN cache \cup {word} |->
     IF w # word THEN cache[w]
     ELSE IF Parse(word) = <<>> THEN pos
     ELSE Parse(word)[Len(Parse(word))].POS]

\* self._cache[word] = pos
CachePut(cache, word, pos) ==
  [w \in DOMAIN cache \cup {word} |-> IF w = word THEN pos ELSE cache[w]]

\* A faulty variant of CacheAdmit: a full cache is cleared to make room.
CacheAdmitEvicting(cache, size, word, pos) ==
  IF HasRoom(cache, size) THEN CachePut(cache, word, pos)
  ELSE [w \in {word} |-> pos]

\* The cache after a miss on word: admitted only while there is room.
CacheAdmit(cache, size, word, pos) ==
  IF HasRoom(cache, size) THEN CachePut(cache, word, pos) ELSE cache

\* self._cache = {}
EmptyCache == [w \in {} |-> "UNKNOWN"]

\* MorphoMetrics._get_pos: the returned tag (or the exception) and the cache
\* after the call.
GetPos(cache, size, word) ==
  IF word = <<>> THEN [pos |-> "UNKNOWN", cache |-> cache]
  ELSE IF CacheHit(cache, word) THEN [pos |-> cache[word], cache |-> cache]
  ELSE IF ParseRaises(word) THEN [raised |-> "ParseError", cache |-> cache]
  ELSE [pos |-> TopTag(word),
        cache |-> CacheAdmit(cache, size, word, TopTag(word))]

\* pos_list = [self._get_pos(w) for w in words]: the tags so far, the cache
\* after the calls made, and whether a call raised (the calls after it are
\* not made).
RECURSIVE PosList(_, _, _, _)
PosList(cache, size, words, acc) ==
  IF words = <<>> THEN [pos_list |-> acc, cache |-> cache, ok |-> TRUE]
  ELSE CHOOSE out \in
         { IF "raised" \in DOMAIN r
             THEN [pos_list |-> acc, cache |-> r.cache, ok |-> FALSE]
             ELSE PosList(r.cache, size, Tail(words), Append(acc, r.pos)) :
           r \in {GetPos(cache, size, Head(words))} } : TRUE

\* pos_counter[tag]
PosCount(pos_list, tag) == CountIf(pos_list, LAMBDA p : p = tag)

\* round(n / total, 3) if total else 0.0, in thousandths.
Ratio(n, total) == IF total > 0 THEN PyRound(n, total, 1000) ELSE 0

\* Whether "perf" in tag.aspect raises: the aspect of a verb's tag is None.
AspectRaises(words) ==
  \E i \in 1..Len(words) :
    /\ Parse(words[i]) # <<>>
    /\ Parse(words[i])[1].POS \in {"VERB", "INFN"}
    /\ Parse(words[i])[1].aspect = "None"

\* _compute_perfective_verb_ratio
PerfectiveVerbRatio(words) ==
  Ratio(CountIf(words, LAMBDA w : /\ Parse(w) # <<>>
                                  /\ Parse(w)[1].POS \in {"VERB", "INFN"}
                                  /\ Parse(w)[1].aspect = "perf"),
        CountIf(words, LAMBDA w : /\ Parse(w) # <<>>
                                  /\ Parse(w)[1].POS \in {"VERB", "INFN"}))

\* suffixes of _count_diminutives
DiminutiveSuffixes ==
  { <<"ru_o", "ru_ch", "ru_k">>, <<"ru_e", "ru_n", "ru_soft", "ru_k">>,
    <<"ru_o", "ru_n", "ru_soft", "ru_k">>, <<"ru_u", "ru_sh", "ru_k">>,
    <<"ru_y", "ru_sh", "ru_k">>, <<"ru_i", "ru_ch", "ru_k">> }

\* str.endswith
EndsWith(s, suffix) ==
  Len(s) >= Len(suffix) /\ SubSeq(s, Len(s) - Len(suffix) + 1, Len(s)) = suffix

\* norm = parse(w)[0].normal_form if parse(w) else w
NormOrWord(w) == IF Parse(w) # <<>> THEN Parse(w)[1].normal_form ELSE w

\* _count_diminutives
CountDiminutives(words) ==
  CountIf(words, LAMBDA w : \E sf \in DiminutiveSuffixes : EndsWith(NormOrWord(w), sf))

\* len(re.findall(r'«[^»]*»', text)) from position i.
RECURSIVE CountQuoted(_, _)
CountQuoted(s, i) ==
  LET open == FirstFrom(s, i, {"laquo"}, TRUE)
      close == FirstFrom(s, open + 1, {"raquo"}, TRUE)
  IN IF open > Len(s) \/ close > Len(s) THEN 0
     ELSE 1 + CountQuoted(s, close + 1)

\* len(re.findall(r'^\s*—', text, re.MULTILINE)) from position i: a match
\* starts at a line start, runs over white space (line breaks included) and
\* ends with the dash; the search goes on behind a match.
RECURSIVE CountDashLines(_, _)
CountDashLines(s, i) ==
  IF i > Len(s) THEN 0
  ELSE IF i = 1 \/ s[i - 1] = "\n"
    THEN LET d == FirstFrom(s, i, Whitespace, FALSE)
         IN IF d <= Len(s) /\ s[d] = "emdash"
              THEN 1 + CountDashLines(s, d + 1)
              ELSE CountDashLines(s, i + 1)
  ELSE CountDashLines(s, FirstFrom(s, i, {"\n"}, TRUE) + 1)

\* _count_dialogue_markers
CountDialogueMarkers(s) == CountQuoted(s, 1) + CountDashLines(s, 1)

\* len({parse(w)[0].normal_form for w in words if parse(w)})
UniqueLemmas(words) ==
  Cardinality({ Parse(words[i])[1].normal_form :
                  i \in {k \in 1..Len(words) : Parse(words[k]) # <<>>} })

MorphoKeys ==
  {"nouns", "verbs", "adjectives", "pronouns", "adverbs", "prepositions",
   "conjunctions", "particles", "interjections", "noun_ratio", "verb_ratio",
   "adj_ratio", "verb_perfective_ratio", "diminutive_noun_count",
   "dialogue_markers", "total_words", "unique_lemmas"}

\* MorphoMetrics._empty_result
MorphoEmpty == [k \in MorphoKeys |-> 0]

\* The dict compute returns for the words and their tags; an exception when
\* a call of the collaborator made while building it raises.
MorphoResult(s, words, pos_list) ==
  IF \E i \in 1..Len(words) : ParseRaises(words[i]) THEN Raised("ParseError")
  ELSE IF AspectRaises(words) THEN Raised("TypeError")
  ELSE
    [nouns |-> PosCount(pos_list, "NOUN"),
     verbs |-> PosCount(pos_list, "VERB"),
     adjectives |-> PosCount(pos_list, "ADJF"),
     pronouns |-> PosCount(pos_list, "NPRO") + PosCount(pos_list, "ADJPRO")
                    + PosCount(pos_list, "PRTFPRO"),
     adverbs |-> PosCount(pos_list, "ADVB"),
     prepositions |-> PosCount(pos_list, "PREP"),
     conjunctions |-> PosCount(pos_list, "CONJ"),
     particles |-> PosCount(pos_list, "PRCL"),
     interjections |-> PosCount(pos_list, "INTJ"),
     noun_ratio |-> Ratio(PosCount(pos_list, "NOUN"), Len(words)),
     verb_ratio |-> Ratio(PosCount(pos_list, "VERB"), Len(words)),
     adj_ratio |-> Ratio(PosCount(pos_list, "ADJF"), Len(words)),
     verb_perfective_ratio |-> PerfectiveVerbRatio(words),
     diminutive_noun_count |-> CountDiminutives(words),
     dialogue_markers |-> CountDialogueMarkers(s),
     total_words |-> Len(words),
     unique_lemmas |-> UniqueLemmas(words)]

\* MorphoMetrics.compute on an instance with this cache and capacity: the
\* result (or the exception) and the cache after the call.  text.lower()
\* raises for a value that is no str.
MorphoCompute(cache, size, text) ==
  IF ~IsStr(text) THEN [result |-> Raised("AttributeError"), cache |-> cache]
  ELSE IF MorphoExtractWords(text.s) = <<>>
    THEN [result |-> MorphoEmpty, cache |-> cache]
  ELSE CHOOSE out \in
         { [result |-> IF looked.ok
                         THEN MorphoResult(text.s, words, looked.pos_list)
                         ELSE Raised("ParseError"),
            cache |-> looked.cache] :
             looked \in { PosList(cache, size, words, <<>>) :
                            words \in {MorphoExtractWords(text.s)} },
             words \in {MorphoExtractWords(text.s)} } : TRUE

\* ------------------------------------------------------------------------
\* Inputs
\* ------------------------------------------------------------------------

\* The longest text over Alphabet that is enumerated.
MaxLen == 3

\* The most sentences of a generated text.
MaxSentences == 12

\* The most words of a generated one-sentence text.
MaxWords == 21

\* The most vowels of a generated one-word text.
MaxVowels == 114

\* The most words of a text given to a MorphoMetrics instance.
MaxMorphoWords == 2

\* The largest cache_size a MorphoMetrics instance is constructed with.
MaxCacheSize == 2

\* A Cyrillic vowel and consonant, an upper-case Cyrillic vowel, a Latin
\* letter, a digit, white space, a terminator and the hyphen.
Alphabet == {"ru_a", "ru_k", "RU_A", "x", "1", " ", ".", "-"}

ShortTexts == UNION { [1..n -> Alphabet] : n \in 0..MaxLen }

\* s repeated n times.
Repeat(s, n) ==
  <<>> \o [i \in 1..(n * Len(s)) |-> s[((i - 1) % Len(s)) + 1]]

\* Words of 1, 3, 4 and 5 syllables; Kototok has 7 letters, Atakovala 9.
A1 == <<"ru_a">>
Sobaka == <<"ru_s", "ru_o", "ru_b", "ru_a", "ru_k", "ru_a">>
Kototok == <<"ru_k", "ru_o", "ru_t", "ru_o", "ru_t", "ru_o", "ru_k">>
Atakovala ==
  <<"ru_a", "ru_t", "ru_a", "ru_k", "ru_o", "ru_v", "ru_a", "ru_l", "ru_a">>
Okolo == <<"ru_o", "ru_k", "ru_o", "ru_l", "ru_o">>
Aaaa == Repeat(A1, 4)

\* The word lists a generated text cycles through.
WordLists ==
  { <<Kot>>, <<Atakovala>>, <<Kot, Sobaka>>,
    <<A1, Okolo, Kot, Atakovala, Aaaa, Kototok>> }

\* The words from the k-th on, n of them, each followed by a space.
RECURSIVE WordsText(_, _, _)
WordsText(ws, k, n) ==
  IF n = 0 THEN <<>>
  ELSE ws[((k - 1) % Len(ws)) + 1] \o <<" ">> \o WordsText(ws, k + 1, n - 1)

\* ns sentences of nw words each, cycling through ws, each sentence ended by
\* a full stop and a space.
RECURSIVE Paragraph(_, _, _, _)
Paragraph(ws, k, ns, nw) ==
  IF ns = 0 THEN <<>>
  ELSE WordsText(ws, k, nw) \o <<".", " ">> \o Paragraph(ws, k + nw, ns - 1, nw)

GeneratedTexts ==
  { Paragraph(ws, 1, ns, nw) : ws \in WordLists, ns \in 1..MaxSentences, nw \in 1..2 }
  \cup { Paragraph(ws, 1, 1, nw) : ws \in WordLists, nw \in 1..MaxWords }
  \cup { Repeat(A1, k) : k \in 1..MaxVowels }

\* Values that are no str.
NonStrings == {PyNone, PyInt(5), PyList(2)}

\* The words of the texts given to a MorphoMetrics instance.
MorphoWords == {Kot, Spit, Stali, On, Yy, ErrWord, Ushk}

\* ws joined by single spaces.
RECURSIVE Join(_)
Join(ws) ==
  IF ws = <<>> THEN <<>>
  ELSE IF Len(ws) = 1 THEN ws[1]
  ELSE ws[1] \o <<" ">> \o Join(Tail(ws))

\* Two sentences of 2 and 3 words: "Kot spit. Sobaka bezhit bystro!" with
\* capital K and S.
KotSpitText ==
  <<"RU_K", "ru_o", "ru_t", " ">> \o Spit \o <<".", " ">>
  \o <<"RU_S", "ru_o", "ru_b", "ru_a", "ru_k", "ru_a", " ">>
  \o <<"ru_b", "ru_e", "ru_zh", "ru_i", "ru_t", " ">>
  \o <<"ru_b", "ru_y", "ru_s", "ru_t", "ru_r", "ru_o", "!">>

\* Texts without words, with a dialogue, with a hyphen, with capitals and
\* of two sentences.
SpecialTexts ==
  { <<>>, <<" ", "\n">>, <<"x", ".">>, KotSpitText,
    <<"laquo">> \o Kot \o <<"raquo", "\n", " ", "emdash", " ">> \o On,
    Kot \o <<"-">> \o On,
    <<"RU_K", "RU_O", "ru_t", "!">> }

MorphoTexts ==
  { Join(ws) : ws \in UNION { [1..n -> MorphoWords] : n \in 1..MaxMorphoWords } }
  \cup SpecialTexts

\* The arguments given to the analyzers that keep no state, and to a fresh
\* MorphoMetrics instance.
Inputs ==
  NonStrings
  \cup { PyStr(s) : s \in ShortTexts \cup GeneratedTexts \cup MorphoTexts }

\* The words of the texts given to the one MorphoMetrics instance that is
\* called again and again: a noun, a word with two candidates, a word
\* without candidates and a word the collaborator fails on.
InstanceWords == {Kot, Stali, Ushk, ErrWord}

InstanceTexts ==
  { Join(ws) :
      ws \in UNION { [1..n -> InstanceWords] : n \in 1..MaxMorphoWords } }
  \cup { <<>>, <<"x", ".">>, <<"RU_K", "RU_O", "ru_t", "!">> }

InstanceInputs == {PyNone, PyInt(5)} \cup { PyStr(s) : s \in InstanceTexts }

\* ------------------------------------------------------------------------
\* State
\* ------------------------------------------------------------------------

VARIABLES
  cache,       \* self._cache of the MorphoMetrics instance
  cache_size,  \* self._cache_size of the instance
  call,        \* the last call made: the analyzer and its argument
  result,      \* what that call returned or raised
  threads      \* per caller of a shared instance: where its compute call is

vars == <<cache, cache_size, call, result, threads>>

NoCall == [analyzer |-> "none"]
NoResult == [none |-> TRUE]

\* cache_size of MorphoMetrics.__init__ when none is given.
DefaultCacheSize == 100000

\* The callers that share one MorphoMetrics instance.
NumThreads == 2
Threads == 1..NumThreads

\* A caller that is in no compute call.
Idle == [pc |-> "idle"]
NoThreads == [t \in Threads |-> Idle]

\* ------------------------------------------------------------------------
\* One MorphoMetrics instance, called sequentially
\* ------------------------------------------------------------------------

\* MorphoMetrics(cache_size)
Init ==
  /\ cache = EmptyCache
  /\ cache_size \in 0..MaxCacheSize
  /\ call = NoCall
  /\ result = NoResult
  /\ threads = NoThreads

\* instance.compute(text)
Compute(t) ==
  /\ \E out \in {MorphoCompute(cache, cache_size, t)} :
       cache' = out.cache /\ result' = out.result
  /\ call' = [analyzer |-> "morpho", text |-> t]
  /\ UNCHANGED <<cache_size, threads>>

\* instance._get_pos(word)
Lookup(w) ==
  /\ \E out \in {GetPos(cache, cache_size, w)} :
       /\ cache' = out.cache
       /\ result' = IF "raised" \in DOMAIN out THEN Raised(out.raised)
                    ELSE [pos |-> out.pos]
  /\ call' = [analyzer |-> "get_pos", text |-> PyStr(w)]
  /\ UNCHANGED <<cache_size, threads>>

Next ==
  \/ \E t \in InstanceInputs : Compute(t)
  \/ \E w \in InstanceWords \cup {<<>>} : Lookup(w)

Spec == Init /\ [][Next]_vars

\* ------------------------------------------------------------------------
\* The stateless analyzers, and MorphoMetrics on a fresh instance
\* ------------------------------------------------------------------------

InitPure ==
  /\ cache = EmptyCache
  /\ cache_size = DefaultCacheSize
  /\ call \in { [analyzer |-> "none", text |-> t] : t \in Inputs }
  /\ result = NoResult
  /\ threads = NoThreads

Called(analyzer, r) ==
  /\ call' = [analyzer |-> analyzer, text |-> call.text]
  /\ result' = r
  /\ UNCHANGED <<cache, cache_size, threads>>

\* TextComplexityMetrics().compute(text)
Surface == Called("surface", SurfaceCompute(call.text))

\* DescriptiveTextMetrics().compute(text), descriptiveTextMetrics.py
Descriptive == Called("descriptive", DescriptiveCompute(call.text))

\* DescriptiveTextMetrics().compute(text), ReadabilityIndexCalculator.py
DescriptiveCopy == Called("descriptive_copy", DescriptiveComputeCopy(call.text))

\* ReadabilityIndexCalculator().compute(text)
Readability == Called("readability", ReadabilityCompute(call.text))

\* MorphoMetrics().compute(text): the instance is new and is dropped.
MorphoFresh ==
  Called("morpho", MorphoCompute(EmptyCache, DefaultCacheSize, call.text).result)

NextPure == Surface \/ Descriptive \/ DescriptiveCopy \/ Readability \/ MorphoFresh

SpecPure == InitPure /\ [][NextPure]_vars

\* ------------------------------------------------------------------------
\* _count_syllables_ru of the three analyzers, called on a word directly
\* ------------------------------------------------------------------------

\* A lower-case and an upper-case vowel, two consonants and the vowel yo.
WordAlphabet == {"ru_a", "RU_A", "ru_r", "ru_t", "ru_yo"}

\* The word strings given to _count_syllables_ru, the empty one included.
WordStrings == UNION { [1..n -> WordAlphabet] : n \in 0..MaxLen }

InitSyllables ==
  /\ cache = EmptyCache
  /\ cache_size = DefaultCacheSize
  /\ call \in { [analyzer |-> "none", text |-> PyStr(w)] : w \in WordStrings }
  /\ result = NoResult
  /\ threads = NoThreads

\* TextComplexityMetrics._count_syllables_ru(word)
SyllablesSurface ==
  Called("surface", [count |-> CountSyllablesSurface(call.text.s)])

\* DescriptiveTextMetrics._count_syllables_ru(word)
SyllablesDescriptive ==
  Called("descriptive", [count |-> CountSyllables(call.text.s)])

\* ReadabilityIndexCalculator()._count_syllables_ru(word)
SyllablesReadability ==
  Called("readability", [count |-> CountSyllables(call.text.s)])

NextSyllables == SyllablesSurface \/ SyllablesDescriptive \/ SyllablesReadability

SpecSyllables == InitSyllables /\ [][NextSyllables]_vars


\* ------------------------------------------------------------------------
\* One MorphoMetrics instance shared by concurrent callers: a caller may be
\* preempted between any two of the steps of _get_pos
\* ------------------------------------------------------------------------

\* The texts the concurrent callers pass to compute.
ConcInputs ==
  { PyStr(s) : s \in {<<>>, Kot, Stali, Join(<<Kot, Stali>>), ErrWord} }

InitConc ==
  /\ cache = EmptyCache
  /\ cache_size \in 0..MaxCacheSize
  /\ call = NoCall
  /\ result = NoResult
  /\ threads = NoThreads

\* The words of the call caller t is in, and the one it is looking up.
WordsOf(t) == threads[t].words
WordOf(t) == threads[t].words[threads[t].i]

\* compute returns or raises: the caller is idle again.
Return(t, r) ==
  /\ call' = [analyzer |-> "morpho", text |-> threads[t].text]
  /\ result' = r
  /\ threads' = [threads EXCEPT ![t] = Idle]

\* _get_pos returns pos: the next word of the list comprehension, or the
\* rest of compute after the last one.
Returned(t, pos) ==
  [threads[t] EXCEPT
     !.pos_list = Append(@, pos),
     !.i = @ + 1,
     !.pc = IF threads[t].i = Len(WordsOf(t)) THEN "finish" ELSE "lookup"]

\* compute(text) is entered: the words are extracted; a text without words
\* returns at once.
Begin(t, text) ==
  /\ threads[t].pc = "idle"
  /\ IF MorphoExtractWords(text.s) = <<>>
       THEN /\ call' = [analyzer |-> "morpho", text |-> text]
            /\ result' = MorphoEmpty
            /\ UNCHANGED threads
       ELSE /\ threads' = [threads EXCEPT ![t] =
                             [pc |-> "lookup", text |-> text,
                              words |-> MorphoExtractWords(text.s),
                              i |-> 1, pos_list |-> <<>>, pos |-> "None"]]
            /\ UNCHANGED <<call, result>>
  /\ UNCHANGED <<cache, cache_size>>

\* if word in self._cache: return self._cache[word]
CacheLookup(t) ==
  /\ threads[t].pc = "lookup"
  /\ threads' = [threads EXCEPT ![t] =
                   IF CacheHit(cache, WordOf(t))
                     THEN Returned(t, cache[WordOf(t)])
                     ELSE [@ EXCEPT !.pc = "parse"]]
  /\ UNCHANGED <<cache, cache_size, call, result>>

\* parsed = self.morph.parse(word) and the choice of pos
CollaboratorParse(t) ==
  /\ threads[t].pc = "parse"
  /\ IF ParseRaises(WordOf(t))
       THEN Return(t, Raised("ParseError"))
       ELSE /\ threads' = [threads EXCEPT ![t] =
                             [@ EXCEPT !.pc = "check",
                                       !.pos = TopTag(WordOf(t))]]
            /\ UNCHANGED <<call, result>>
  /\ UNCHANGED <<cache, cache_size>>

\* if len(self._cache) < self._cache_size
CapacityCheck(t) ==
  /\ threads[t].pc = "check"
  /\ threads' = [threads EXCEPT ![t] =
                   IF HasRoom(cache, cache_size)
                     THEN [@ EXCEPT !.pc = "insert"]
                     ELSE Returned(t, threads[t].pos)]
  /\ UNCHANGED <<cache, cache_size, call, result>>

\* self._cache[word] = pos
CacheInsert(t) ==
  /\ threads[t].pc = "insert"
  /\ cache' = CachePut(cache, WordOf(t), threads[t].pos)
  /\ threads' = [threads EXCEPT ![t] = Returned(t, threads[t].pos)]
  /\ UNCHANGED <<cache_size, call, result>>

\* The rest of compute after the tags are looked up.
Finish(t) ==
  /\ threads[t].pc = "finish"
  /\ Return(t, MorphoResult(threads[t].text.s, WordsOf(t),
                            threads[t].pos_list))
  /\ UNCHANGED <<cache, cache_size>>

NextConc ==
  \E t \in Threads :
    \/ \E text \in ConcInputs : Begin(t, text)
    \/ CacheLookup(t)
    \/ CollaboratorParse(t)
    \/ CapacityCheck(t)
    \/ CacheInsert(t)
    \/ Finish(t)

SpecConc == InitConc /\ [][NextConc]_vars

\* ------------------------------------------------------------------------
\* Properties
\* ------------------------------------------------------------------------

\* The words compute looks up for the last call of the instance.
CallWords ==
  IF call.analyzer = "morpho" /\ IsStr(call.text)
    THEN MorphoExtractWords(call.text.s) ELSE <<>>

\* sum(d.values()) over the keys ks
RECURSIVE SumDict(_, _)
SumDict(d, ks) ==
  IF ks = {} THEN 0
  ELSE The({ d[k] + SumDict(d, ks \ {k}) : k \in {CHOOSE x \in ks : TRUE} })

\* C1: after any sequence of compute and _get_pos calls on one instance the
\* cache holds at most cache_size entries, for every capacity from 0 on.
C1_CacheWithinCapacity == Cardinality(DOMAIN cache) <= cache_size

\* A compute call has looked up a word that a full cache of capacity >= 1
\* did not admit.
C1_FullCacheMiss ==
  /\ cache_size >= 1
  /\ Cardinality(DOMAIN cache) = cache_size
  /\ "raised" \notin DOMAIN result
  /\ \E i \in 1..Len(CallWords) : CallWords[i] \notin DOMAIN cache

\* C2: a cache entry is never removed or overwritten: every step of the
\* instance keeps each word -> tag pair, and a step taken with the cache at
\* capacity leaves the whole cache as it is.
C2_EntriesKept ==
  [][/\ \A w \in DOMAIN cache : w \in DOMAIN cache' /\ cache'[w] = cache[w]
     /\ Cardinality(DOMAIN cache) >= cache_size => cache' = cache]_vars

\* A _get_pos call has returned the tag of a word that is not in the full
\* cache.
C2_LookupAtCapacity ==
  /\ call.analyzer = "get_pos"
  /\ "pos" \in DOMAIN result
  /\ call.text.s # <<>>
  /\ call.text.s \notin DOMAIN cache
  /\ cache_size >= 1
  /\ Cardinality(DOMAIN cache) >= cache_size

\* C3: compute on the same text gives the same result whatever the cache
\* holds and whatever calls came before: the result of every compute call
\* of the instance is the one an instance that caches nothing returns.
C3_CacheTransparent ==
  call.analyzer = "morpho" =>
    result = MorphoCompute(EmptyCache, 0, call.text).result

\* compute has answered the second occurrence of a two-candidate word from
\* the cache.
C3_AnsweredFromCache ==
  /\ call.analyzer = "morpho"
  /\ call.text = PyStr(Join(<<Stali, Stali>>))
  /\ Stali \in DOMAIN cache
  /\ "verbs" \in DOMAIN result
  /\ result.verbs = 2

\* C4: concurrent compute calls on a shared instance serialize the capacity
\* check and the insert of a lookup: under no interleaving the cache holds
\* more entries than cache_size or maps a word to a tag other than that of
\* its top candidate.
C4_LookupsSerialized ==
  /\ Cardinality(DOMAIN cache) <= cache_size
  /\ \A w \in DOMAIN cache : cache[w] = TopTag(w)

\* C5: a failure of the collaborator's parse during compute is caught and
\* handled as the case without candidates: compute on a string returns a
\* result with all its entries, in which every word is counted.
C5_ParseFailureCaught ==
  (call.analyzer = "morpho" /\ IsStr(call.text)) =>
    /\ DOMAIN result = MorphoKeys
    /\ result.total_words = Len(CallWords)

\* Whether text is no string, the empty string or white space only.
Blank(text) == ~IsStr(text) \/ Strip(text.s) = <<>>

\* C6: each of the four analyzers returns its empty result and raises
\* nothing for an input that is no string, is empty or is white space only.
C6_BlankGivesEmpty ==
  (call.analyzer # "none" /\ Blank(call.text)) =>
    /\ "raised" \notin DOMAIN result
    /\ call.analyzer = "surface" =>
         /\ result.sentence_count = 0
         /\ result.word_count = 0
         /\ result.confidence_hint = 0
    /\ call.analyzer \in {"descriptive", "descriptive_copy"} =>
         result = DescriptiveEmpty
    /\ call.analyzer = "morpho" => result = MorphoEmpty
    /\ call.analyzer = "readability" => result = ReadabilityEmpty

\* The three clamped indices of a result of ReadabilityIndexCalculator lie
\* in [0, 100], [1, 5] and [1, 12].
WithinClamps(r) ==
  /\ 0 <= r.flesch_reading_ease /\ r.flesch_reading_ease <= 1000
  /\ 10 <= r.simple_level /\ r.simple_level <= 50
  /\ 10 <= r.school_grade /\ r.school_grade <= 120

\* C7 as stated: for every input, the empty one included, the readability
\* indices lie within their clamps.
C7_WithinClampsAlways ==
  call.analyzer = "readability" => WithinClamps(result)

\* C7: the readability indices lie within their clamps for every input
\* with a sentence and a Cyrillic word; for every other input the three
\* indices are 0.
C7_WithinClampsUnlessEmpty ==
  call.analyzer = "readability" =>
    IF Blank(call.text) \/ Len(ExtractWords(call.text.s)) = 0
      THEN /\ result.flesch_reading_ease = 0
           /\ result.simple_level = 0
           /\ result.school_grade = 0
      ELSE WithinClamps(result)

\* A one-word text with so many syllables that the Flesch score is clamped
\* from below and the school grade from above.
C7_BothClampsActive ==
  /\ call.analyzer = "readability"
  /\ result.flesch_level # EmptyMarker
  /\ result.flesch_reading_ease = 0
  /\ result.school_grade = 120

\* C8: ReadabilityIndexCalculator.compute returns the fixed empty result
\* (every number 0, the empty marker, not child friendly, confidence 0.0)
\* exactly for the inputs that are blank, no string or without a sentence or
\* a Cyrillic word; any other result has confidence_hint 1.0 from 20 words
\* on and 0.6 below.
C8_EmptyExactlyWithoutWords ==
  call.analyzer = "readability" =>
    IF \/ Blank(call.text)
       \/ Len(SplitSentences(call.text.s)) = 0
       \/ Len(ExtractWords(call.text.s)) = 0
      THEN /\ \A k \in DOMAIN result \ {"flesch_level", "is_child_friendly"} :
                result[k] = 0
           /\ result.flesch_level = EmptyMarker
           /\ result.is_child_friendly = FALSE
           /\ result.confidence_hint = 0
           /\ DOMAIN result = DOMAIN ReadabilityEmpty
      ELSE /\ result.flesch_level # EmptyMarker
           /\ result.confidence_hint =
                IF Len(ExtractWords(call.text.s)) >= 20 THEN 10 ELSE 6

\* A text of Latin letters only has got the empty result.
C8_LatinOnlyIsEmpty ==
  /\ call.analyzer = "readability"
  /\ call.text = PyStr(<<"x">>)
  /\ result.flesch_level = EmptyMarker

\* C9: the values of word_syllable_distribution sum to word_forms_total,
\* and every syllable count that occurs, 4 and more included, has its own
\* entry holding the number of words with exactly that count.
C9_DistributionSums ==
  call.analyzer \in {"descriptive", "descriptive_copy"} =>
    \A d \in {result.word_syllable_distribution} :
      \A ws \in {IF Blank(call.text) THEN <<>> ELSE ExtractWords(call.text.s)} :
        /\ SumDict(d, DOMAIN d) = result.word_forms_total
        /\ DOMAIN d = { CountSyllables(ws[i]) : i \in 1..Len(ws) }
        /\ \A k \in DOMAIN d :
             d[k] = Cardinality({i \in 1..Len(ws) : CountSyllables(ws[i]) = k})

\* A text with words of 1, 3, 4 and 5 syllables.
C9_ManySyllableCounts ==
  /\ call.analyzer = "descriptive"
  /\ DOMAIN result.word_syllable_distribution = {1, 3, 4, 5}
  /\ result.word_syllable_distribution[3] >= 2

\* C10: every result of DescriptiveTextMetrics.compute has unique_words <=
\* word_forms_total and 0 <= lexical_diversity <= 1.
C10_UniqueAndDiversityInRange ==
  call.analyzer \in {"descriptive", "descriptive_copy"} =>
    /\ "unique_words" \in DOMAIN result
    /\ "lexical_diversity" \in DOMAIN result
    /\ result.unique_words <= result.word_forms_total
    /\ 0 <= result.lexical_diversity
    /\ result.lexical_diversity <= 1000

\* C11: DescriptiveTextMetrics.compute reports lexical_diversity = 0.0 for
\* every text that yields no word, blank or not, and the result has the
\* field in both cases.
C11_DiversityZeroWithoutWords ==
  (/\ call.analyzer \in {"descriptive", "descriptive_copy"}
   /\ \/ Blank(call.text)
      \/ Len(ExtractWords(call.text.s)) = 0) =>
    /\ "lexical_diversity" \in DOMAIN result
    /\ result.lexical_diversity = 0

\* C12: TextComplexityMetrics.compute sets confidence_hint to 0.3 for a
\* non-blank text with fewer than 5 words, whatever the number of sentences,
\* otherwise to 0.5 with fewer than 2 sentences, otherwise to 1.0; for an
\* input that is blank or no string it is 0.0.
C12_ConfidenceTiers ==
  call.analyzer = "surface" =>
    IF Blank(call.text)
      THEN /\ "confidence_hint" \in DOMAIN result
           /\ result.confidence_hint = 0
      ELSE \A sentences \in {SplitSentences(call.text.s)} :
             \A n_words \in {Len(SurfaceWords(sentences))} :
               result.confidence_hint =
                 IF n_words < 5 THEN 30
                 ELSE IF Len(sentences) < 2 THEN 50 ELSE 100

\* C13 as stated: for the text of two sentences and five words,
\* TextComplexityMetrics.compute returns sentence_count = 2, word_count = 5
\* and confidence_hint = 0.3.
C13_FiveWordsLowConfidence ==
  (call.analyzer = "surface" /\ call.text = PyStr(KotSpitText)) =>
    /\ result.sentence_count = 2
    /\ result.word_count = 5
    /\ result.confidence_hint = 30

\* C13, amended: for the text of two sentences and five words,
\* TextComplexityMetrics.compute returns sentence_count = 2, word_count = 5
\* and confidence_hint = 1.0, five words being not fewer than 5.
C13_FiveWordsFullConfidence ==
  (call.analyzer = "surface" /\ call.text = PyStr(KotSpitText)) =>
    /\ result.sentence_count = 2
    /\ result.word_count = 5
    /\ result.confidence_hint = 100

\* TextComplexityMetrics.compute has returned for the text of two sentences
\* and five words.
C13_FiveWordsAnalyzed ==
  /\ call.analyzer = "surface"
  /\ call.text = PyStr(KotSpitText)
  /\ result.word_count = 5

\* The number of words of the last compute call whose tag is one of tags.
TaggedIn(tags) == CountIf(CallWords, LAMBDA w : TopTag(w) \in tags)

\* C14: the counts MorphoMetrics.compute reports, and the three ratios, are
\* those of the groups: nouns = NOUN + NPRO, verbs = VERB + INFN + GRND,
\* adjectives = ADJF + PRTF + NUMR, pronouns = NPRO + ADJPRO + PRTFPRO.
C14_GroupedCounts ==
  (call.analyzer = "morpho" /\ DOMAIN result = MorphoKeys) =>
    \A total \in {Len(CallWords)} :
      /\ result.nouns = TaggedIn({"NOUN", "NPRO"})
      /\ result.verbs = TaggedIn({"VERB", "INFN", "GRND"})
      /\ result.adjectives = TaggedIn({"ADJF", "PRTF", "NUMR"})
      /\ result.pronouns = TaggedIn({"NPRO", "ADJPRO", "PRTFPRO"})
      /\ result.noun_ratio = Ratio(result.nouns, total)
      /\ result.verb_ratio = Ratio(result.verbs, total)
      /\ result.adj_ratio = Ratio(result.adjectives, total)

\* C15: ReadabilityIndexCalculator.compute chooses the SMOG formula by the
\* number of sentences alone: from 10 sentences on, 10 included, smog_grade
\* is the square-root formula over the number of words of 3 and more
\* syllables, below 10 it is 1.0 + 0.1 times that number.
C15_SmogBySentenceCount ==
  (call.analyzer = "readability" /\ result.flesch_level # EmptyMarker) =>
    \A n_sentences \in {Len(SplitSentences(call.text.s))} :
      \A polysyllables \in
           {CountIf(ExtractWords(call.text.s),
                    LAMBDA w : CountSyllables(w) >= 3)} :
        /\ result.polysyllabic_words_ge3 = polysyllables
        /\ result.smog_grade =
             IF n_sentences >= 10
               THEN SmogSqrt(polysyllables, n_sentences)
               ELSE 10 + polysyllables

\* A text of 12 sentences with 6 words of 3 and more syllables has got the
\* value of the square-root formula, 7.2, not 1.6 of the linear one.
C15_TwelveSentencesSixWords ==
  /\ call.analyzer = "readability"
  /\ call.text = PyStr(Paragraph(<<Kot, Sobaka>>, 1, 12, 1))
  /\ result.polysyllabic_words_ge3 = 6
  /\ result.smog_grade = 72

\* C16: in every result of ReadabilityIndexCalculator.compute,
\* is_child_friendly is true exactly when the flesch_reading_ease of that
\* result is >= 70 and its simple_level is <= 2.5, values that reach a
\* threshold by the rounding to 1 decimal included.
C16_FlagAgreesWithReported ==
  call.analyzer = "readability" =>
    (result.is_child_friendly <=>
       (result.flesch_reading_ease >= 700 /\ result.simple_level <= 25))

\* C17: for every word string, the empty one and words without a vowel
\* included, _count_syllables_ru of each of the three analyzers returns an
\* integer >= 1 that is max(1, number of vowel characters), the vowels
\* being counted in the lower-cased word.
C17_SyllablesMaxOneVowels ==
  call.analyzer # "none" =>
    /\ result.count \in Nat
    /\ result.count >= 1
    /\ result.count =
         Max(1, Cardinality({ i \in 1..Len(call.text.s) :
                                LowerChar(call.text.s[i]) \in Vowels }))

=============================================================================
